---- MODULE Spec2Model ----
\* AwsQuantumTask (src/src/braket/aws/aws_quantum_task.py): one task handle, the
\* asyncio future it caches, the _wait_for_completion coroutine, and the remote
\* Amazon Braket / S3 service it talks to.
EXTENDS Integers, Sequences, FiniteSets, TLC

\* ---------------------------------------------------------------- bounds
\* poll_timeout_seconds ranges over 0..MaxTimeout (clock ticks)
MaxTimeout == 3
\* poll_interval_seconds ranges over 1..MaxInterval (clock ticks)
MaxInterval == 1

\* ------------------------------------------------------- class constants
NO_RESULT_TERMINAL_STATES == {"FAILED", "CANCELLED"}
RESULTS_READY_STATES == {"COMPLETED"}
RESULTS_FILENAME == "results.json"

\* ------------------------------------------------------------ the remote
NonTerminalStates == {"QUEUED", "RUNNING"}
TaskStates == NonTerminalStates \cup RESULTS_READY_STATES \cup NO_RESULT_TERMINAL_STATES

\* self._metadata = {} after construction; {}.get("status") is None
EmptyMetadata == [status |-> "None", outputS3Bucket |-> "None", outputS3Directory |-> "None"]

\* Python's None as a result value
None == [type |-> "None", resultTypes |-> <<>>]

\* a two-number list [re, im] as the service encodes an amplitude
Pair(re, im) == [kind |-> "list", re |-> re, im |-> im]

\* complex(re, im)
Complex(re, im) == [kind |-> "complex", re |-> re, im |-> im]

\* the objects stored in S3, by bucket and key
S3Body(bucket, key) ==
    CASE bucket = "bucketX" /\ key = "prefixY/results.json" -> "gate_model_amplitude"
      [] bucket = "bucketX" /\ key = "prefixW/results.json" -> "gate_model_plain"
      [] bucket = "bucketZ" /\ key = "prefixY/results.json" -> "annealing"
      [] bucket = "bucketZ" /\ key = "prefixW/results.json" -> "unknown_schema"
      [] OTHER -> "NoSuchKey"

\* BraketSchemaBase.parse_raw_schema: the typed raw result a body parses to
ParseRawSchema(body) ==
    CASE body = "gate_model_amplitude" ->
            [schema |-> "GateModelTaskResult",
             resultTypes |-> << [type |-> "amplitude",
                                 value |-> [st \in {"00", "11"} |-> IF st = "00" THEN Pair(3, 4) ELSE Pair(0, 1)]],
                                [type |-> "probability",
                                 value |-> [st \in {"00", "11"} |-> Pair(1, 0)]] >>]
      [] body = "gate_model_plain" ->
            [schema |-> "GateModelTaskResult", resultTypes |-> <<>>]
      [] body = "annealing" ->
            [schema |-> "AnnealingTaskResult", resultTypes |-> <<>>]
      [] OTHER ->
            [schema |-> "Unknown", resultTypes |-> <<>>]

\* ------------------------------------------------------- result dispatch
\* the loop body of the GateModelTaskResult overload: an amplitude entry's
\* values become complex numbers, any other entry is left as it is
ConvertResultType(result_type) ==
    IF result_type.type = "amplitude"
    THEN [result_type EXCEPT !.value =
            [st \in DOMAIN result_type.value |->
                Complex(result_type.value[st].re, result_type.value[st].im)]]
    ELSE result_type

\* whether _format_result has an overload for the raw result's type
FormatResultSupported(result) ==
    result.schema \in {"GateModelTaskResult", "AnnealingTaskResult"}

\* _format_result: the typed result of a raw result
FormatResult(result) ==
    IF result.schema = "GateModelTaskResult"
    THEN [type |-> "GateModelQuantumTaskResult",
          resultTypes |-> [i \in DOMAIN result.resultTypes |->
                              ConvertResultType(result.resultTypes[i])]]
    ELSE [type |-> "AnnealingQuantumTaskResult", resultTypes |-> result.resultTypes]

\* ----------------------------------------------------------------- state
VARIABLES
    _metadata,              \* self._metadata
    _result,                \* self._result
    _future,                \* self._future (kind "none": the attribute is not set)
    _poll_timeout_seconds,  \* self._poll_timeout_seconds
    _poll_interval_seconds, \* self._poll_interval_seconds
    coro,                   \* the frame of the _wait_for_completion coroutine
    remote,                 \* the task as the service holds it
    pc,                     \* "idle", or "blocked": result() is inside run_until_complete
    running,                \* ids of the polling operations that have not settled
    opLog,                  \* remote calls issued by the current polling operation
    lastFetch,              \* response of the most recent successful get_quantum_task
    cancelledWith,          \* self._result when cancel() last cancelled the operation
    last,                   \* the most recent call on the handle, as its caller saw it
    submission,             \* a call of AwsQuantumTask.create: its arguments and what it did
    conversion,             \* a raw result object and the _format_result calls made on it
    comparison              \* two objects and the outcome of comparing and hashing them

\* the variables of the module-level functions and of the comparison
functionVars == <<submission, conversion, comparison>>

vars == <<_metadata, _result, _future, _poll_timeout_seconds, _poll_interval_seconds,
          coro, remote, pc, running, opLog, lastFetch, cancelledWith, last,
          functionVars>>

NoFuture == [kind |-> "none", id |-> 0, state |-> "none", value |-> None,
             exception |-> "None", mustCancel |-> FALSE]

\* Future.done()
FutureDone(f) == f.state \in {"finished", "cancelled", "failed"}

\* Future.cancelled()
FutureCancelled(f) == f.state = "cancelled"

\* the task's output location, as create() was given it
TaskOutputs == {<<"bucketX", "prefixY">>, <<"bucketZ", "prefixY">>}

\* one remote call, as the session sees it
GetStatusCall(ok, status) ==
    [call |-> "getStatus", ok |-> ok, status |-> status, bucket |-> "", key |-> ""]
FetchBlobCall(ok, bucket, key) ==
    [call |-> "fetchBlob", ok |-> ok, status |-> "", bucket |-> bucket, key |-> key]
CancelCall(ok) ==
    [call |-> "cancel", ok |-> ok, status |-> "", bucket |-> "", key |-> ""]

\* a summary of a sequence of remote calls: how many of each kind, how many
\* status responses were not terminal, whether a no-result terminal or a ready
\* response was among them, how many calls followed the one that should have
\* been the last (late), how many blob fetches came before any ready response
\* (early), where the last blob fetch went, how many calls failed and how many
\* calls followed a failed one (afterFailure)
NoCalls ==
    [getStatus |-> 0, fetchBlob |-> 0, cancel |-> 0, nonTerminal |-> 0,
     noResultSeen |-> FALSE, readySeen |-> FALSE, late |-> 0, early |-> 0,
     bucket |-> "", key |-> "", failed |-> 0, afterFailure |-> 0]

Logged(log, entry) ==
    [getStatus |-> log.getStatus + (IF entry.call = "getStatus" THEN 1 ELSE 0),
     fetchBlob |-> log.fetchBlob + (IF entry.call = "fetchBlob" THEN 1 ELSE 0),
     cancel |-> log.cancel + (IF entry.call = "cancel" THEN 1 ELSE 0),
     nonTerminal |-> log.nonTerminal +
        (IF entry.call = "getStatus" /\ entry.ok /\ entry.status \in NonTerminalStates
         THEN 1 ELSE 0),
     noResultSeen |-> log.noResultSeen \/
        (entry.call = "getStatus" /\ entry.ok /\ entry.status \in NO_RESULT_TERMINAL_STATES),
     readySeen |-> log.readySeen \/
        (entry.call = "getStatus" /\ entry.ok /\ entry.status \in RESULTS_READY_STATES),
     late |-> log.late + (IF log.noResultSeen \/ log.fetchBlob > 0 THEN 1 ELSE 0),
     early |-> log.early +
        (IF entry.call = "fetchBlob" /\ ~log.readySeen THEN 1 ELSE 0),
     bucket |-> IF entry.call = "fetchBlob" THEN entry.bucket ELSE log.bucket,
     key |-> IF entry.call = "fetchBlob" THEN entry.key ELSE log.key,
     failed |-> log.failed + (IF entry.ok THEN 0 ELSE 1),
     afterFailure |-> log.afterFailure + (IF log.failed > 0 THEN 1 ELSE 0)]

\* the handle and the bookkeeping of the call in progress, as one value the
\* methods below take and return; the remote call number `fail` of the step
\* that starts here fails (0: none does)
Self(fail) ==
    [_metadata |-> _metadata, _result |-> _result, _future |-> _future, coro |-> coro,
     running |-> running, opLog |-> opLog, lastFetch |-> lastFetch,
     io |-> NoCalls, exc |-> "None", meta |-> EmptyMetadata, calls |-> 0, fail |-> fail,
     created |-> FALSE, recheck |-> "None"]

\* whether the remote call that s is about to issue succeeds
RemoteOk(s) == s.calls + 1 # s.fail

\* ------------------------------------------------------------- methods
\* metadata() that returns the response without storing it in self._metadata
metadata_NotCached(s, use_cached_value) ==
    IF use_cached_value
    THEN [s EXCEPT !.meta = s._metadata]
    ELSE IF RemoteOk(s)
         THEN [s EXCEPT !.meta = remote, !.lastFetch = remote,
                        !.calls = @ + 1,
                        !.io = Logged(@, GetStatusCall(TRUE, remote.status))]
         ELSE [s EXCEPT !.exc = "RemoteCallFailure",
                        !.calls = @ + 1,
                        !.io = Logged(@, GetStatusCall(FALSE, ""))]

\* AwsQuantumTask.metadata
metadata(s, use_cached_value) ==
    IF use_cached_value
    THEN [s EXCEPT !.meta = s._metadata]
    ELSE IF RemoteOk(s)
         THEN [s EXCEPT !._metadata = remote, !.meta = remote, !.lastFetch = remote,
                        !.calls = @ + 1,
                        !.io = Logged(@, GetStatusCall(TRUE, remote.status))]
         ELSE [s EXCEPT !.exc = "RemoteCallFailure",
                        !.calls = @ + 1,
                        !.io = Logged(@, GetStatusCall(FALSE, ""))]

\* the key without the results file name
ResultsKey_NoFilename(current_metadata) ==
    current_metadata.outputS3Directory

\* the S3 key _wait_for_completion reads the result from
ResultsKey(current_metadata) ==
    current_metadata.outputS3Directory \o "/" \o RESULTS_FILENAME

\* the results-ready branch of _wait_for_completion: fetch, parse, convert, memoize
RetrieveResult(s, current_metadata) ==
    LET bucket == current_metadata.outputS3Bucket
        key == ResultsKey(current_metadata)
        body == S3Body(bucket, key)
        fetched == RemoteOk(s) /\ body # "NoSuchKey"
        entry == FetchBlobCall(fetched, bucket, key)
        s1 == [s EXCEPT !.calls = @ + 1, !.io = Logged(@, entry),
                        !.opLog = Logged(@, entry)]
    IN  IF ~fetched
        THEN [s1 EXCEPT !._future.state = "failed",
                        !._future.exception = "RemoteCallFailure",
                        !.running = @ \ {s._future.id}]
        ELSE IF ~FormatResultSupported(ParseRawSchema(body))
        THEN [s1 EXCEPT !._future.state = "failed",
                        !._future.exception = "TypeError",
                        !.running = @ \ {s._future.id}]
        ELSE [s1 EXCEPT !._result = FormatResult(ParseRawSchema(body)),
                        !._future.state = "finished",
                        !._future.value = FormatResult(ParseRawSchema(body)),
                        !.running = @ \ {s._future.id},
                        !.coro.outcome = "ready"]

\* the polling operation settles empty (timed out, or terminal without a result)
SettleEmpty(s, outcome) ==
    [s EXCEPT !._result = None,
              !._future.state = "finished",
              !._future.value = None,
              !.running = @ \ {s._future.id},
              !.coro.outcome = outcome]

\* _wait_for_completion that sleeps and polls on after a no-result terminal status
WaitForCompletion_IgnoresTerminal(s) ==
    IF s._future.mustCancel
    THEN [s EXCEPT !._future.state = "cancelled", !._future.mustCancel = FALSE,
                   !.running = @ \ {s._future.id}, !.coro.outcome = "cancelled"]
    ELSE IF ~(s.coro.elapsed < _poll_timeout_seconds)
    THEN SettleEmpty(s, "timeout")
    ELSE LET m == [metadata(s, FALSE) EXCEPT
                      !.opLog = Logged(@, GetStatusCall(RemoteOk(s),
                                          IF RemoteOk(s) THEN remote.status ELSE ""))]
             task_status == m.meta.status
         IN  IF m.exc # "None"
             THEN [m EXCEPT !._future.state = "failed", !._future.exception = m.exc,
                            !.exc = "None", !.running = @ \ {s._future.id}]
             ELSE IF task_status \in RESULTS_READY_STATES
             THEN RetrieveResult(m, m.meta)
             ELSE [m EXCEPT !.coro.sleep = _poll_interval_seconds]

\* _wait_for_completion that answers a failed status call by sleeping and
\* polling again
WaitForCompletion_RetriesFailure(s) ==
    IF s._future.mustCancel
    THEN [s EXCEPT !._future.state = "cancelled", !._future.mustCancel = FALSE,
                   !.running = @ \ {s._future.id}, !.coro.outcome = "cancelled"]
    ELSE IF ~(s.coro.elapsed < _poll_timeout_seconds)
    THEN SettleEmpty(s, "timeout")
    ELSE LET m == [metadata(s, FALSE) EXCEPT
                      !.opLog = Logged(@, GetStatusCall(RemoteOk(s),
                                          IF RemoteOk(s) THEN remote.status ELSE ""))]
             task_status == m.meta.status
         IN  IF m.exc # "None"
             THEN [m EXCEPT !.exc = "None", !.coro.sleep = _poll_interval_seconds]
             ELSE IF task_status \in RESULTS_READY_STATES
             THEN RetrieveResult(m, m.meta)
             ELSE IF task_status \in NO_RESULT_TERMINAL_STATES
             THEN SettleEmpty(m, "noresult")
             ELSE [m EXCEPT !.coro.sleep = _poll_interval_seconds]

\* _wait_for_completion that fetches the status before it tests the timeout
WaitForCompletion_FetchesFirst(s) ==
    IF s._future.mustCancel
    THEN [s EXCEPT !._future.state = "cancelled", !._future.mustCancel = FALSE,
                   !.running = @ \ {s._future.id}, !.coro.outcome = "cancelled"]
    ELSE LET m == [metadata(s, FALSE) EXCEPT
                      !.opLog = Logged(@, GetStatusCall(RemoteOk(s),
                                          IF RemoteOk(s) THEN remote.status ELSE ""))]
             task_status == m.meta.status
         IN  IF m.exc # "None"
             THEN [m EXCEPT !._future.state = "failed", !._future.exception = m.exc,
                            !.exc = "None", !.running = @ \ {s._future.id}]
             ELSE IF task_status \in RESULTS_READY_STATES
             THEN RetrieveResult(m, m.meta)
             ELSE IF task_status \in NO_RESULT_TERMINAL_STATES
             THEN SettleEmpty(m, "noresult")
             ELSE IF ~(s.coro.elapsed < _poll_timeout_seconds)
             THEN SettleEmpty(m, "timeout")
             ELSE [m EXCEPT !.coro.sleep = _poll_interval_seconds]

\* _wait_for_completion that sleeps again, without polling, once the timeout
\* has passed
WaitForCompletion_NeverTimesOut(s) ==
    IF s._future.mustCancel
    THEN [s EXCEPT !._future.state = "cancelled", !._future.mustCancel = FALSE,
                   !.running = @ \ {s._future.id}, !.coro.outcome = "cancelled"]
    ELSE IF ~(s.coro.elapsed < _poll_timeout_seconds)
    THEN [s EXCEPT !.coro.sleep = _poll_interval_seconds]
    ELSE LET m == [metadata(s, FALSE) EXCEPT
                      !.opLog = Logged(@, GetStatusCall(RemoteOk(s),
                                          IF RemoteOk(s) THEN remote.status ELSE ""))]
             task_status == m.meta.status
         IN  IF m.exc # "None"
             THEN [m EXCEPT !._future.state = "failed", !._future.exception = m.exc,
                            !.exc = "None", !.running = @ \ {s._future.id}]
             ELSE IF task_status \in RESULTS_READY_STATES
             THEN RetrieveResult(m, m.meta)
             ELSE IF task_status \in NO_RESULT_TERMINAL_STATES
             THEN SettleEmpty(m, "noresult")
             ELSE [m EXCEPT !.coro.sleep = _poll_interval_seconds]

\* AwsQuantumTask._wait_for_completion, from one resumption of the coroutine to
\* its next suspension (the await of asyncio.sleep) or its return
WaitForCompletion(s) ==
    IF s._future.mustCancel
    THEN \* CancelledError is thrown into the coroutine at the await
         [s EXCEPT !._future.state = "cancelled", !._future.mustCancel = FALSE,
                   !.running = @ \ {s._future.id}, !.coro.outcome = "cancelled"]
    ELSE IF ~(s.coro.elapsed < _poll_timeout_seconds)
    THEN SettleEmpty(s, "timeout")
    ELSE LET m == [metadata(s, FALSE) EXCEPT
                      !.opLog = Logged(@, GetStatusCall(RemoteOk(s),
                                          IF RemoteOk(s) THEN remote.status ELSE ""))]
             task_status == m.meta.status
         IN  IF m.exc # "None"
             THEN [m EXCEPT !._future.state = "failed", !._future.exception = m.exc,
                            !.exc = "None", !.running = @ \ {s._future.id}]
             ELSE IF task_status \in RESULTS_READY_STATES
             THEN RetrieveResult(m, m.meta)
             ELSE IF task_status \in NO_RESULT_TERMINAL_STATES
             THEN SettleEmpty(m, "noresult")
             ELSE [m EXCEPT !.coro.sleep = _poll_interval_seconds]

\* AwsQuantumTask._create_future: a new task around _wait_for_completion; the
\* run_until_complete that creates it also runs the task's first step. The new
\* task is an object other than the future it replaces: its id is the other of
\* 1 and 2. The coroutine's start_time is now, so no time has elapsed.
CreateFuture(s) ==
    LET id == IF s._future.id = 1 THEN 2 ELSE 1
        s0 == [s EXCEPT !._future = [kind |-> "Task", id |-> id, state |-> "pending",
                                     value |-> None, exception |-> "None",
                                     mustCancel |-> FALSE],
                        !.created = TRUE,
                        !.running = @ \cup {id},
                        !.opLog = NoCalls,
                        !.coro = [elapsed |-> 0, sleep |-> 0, clock0 |-> 0,
                                  outcome |-> "polling"]]
    IN  WaitForCompletion(s0)

\* _get_future that starts a new polling operation on every call
GetFuture_AlwaysNew(s) ==
    CreateFuture(s)

\* _get_future that restarts a settled operation without looking at self._result
GetFuture_IgnoresResult(s) ==
    IF s._future.kind = "none"
    THEN CreateFuture(s)
    ELSE IF FutureDone(s._future) /\ ~FutureCancelled(s._future)
    THEN LET m == [metadata(s, FALSE) EXCEPT
                      !.recheck = IF RemoteOk(s) THEN remote.status ELSE "RemoteCallFailure"]
         IN  IF m.exc # "None"
             THEN m
             ELSE IF m.meta.status \in NO_RESULT_TERMINAL_STATES
             THEN m
             ELSE CreateFuture(m)
    ELSE s

\* _get_future that restarts whatever status the re-check reports
GetFuture_NoTerminalCheck(s) ==
    IF s._future.kind = "none"
    THEN CreateFuture(s)
    ELSE IF FutureDone(s._future) /\ ~FutureCancelled(s._future) /\ s._result = None
    THEN LET m == [metadata(s, FALSE) EXCEPT
                      !.recheck = IF RemoteOk(s) THEN remote.status ELSE "RemoteCallFailure"]
         IN  IF m.exc # "None"
             THEN m
             ELSE CreateFuture(m)
    ELSE s

\* _get_future that keeps returning the settled operation
GetFuture_ReturnsStale(s) ==
    IF s._future.kind = "none"
    THEN CreateFuture(s)
    ELSE s

\* _get_future that fetches the status twice before it decides
GetFuture_RechecksTwice(s) ==
    IF s._future.kind = "none"
    THEN CreateFuture(s)
    ELSE IF FutureDone(s._future) /\ ~FutureCancelled(s._future) /\ s._result = None
    THEN LET m0 == metadata(s, FALSE)
             m == [metadata(m0, FALSE) EXCEPT
                      !.recheck = IF RemoteOk(m0) THEN remote.status ELSE "RemoteCallFailure"]
         IN  IF m0.exc # "None"
             THEN [m0 EXCEPT !.recheck = "RemoteCallFailure"]
             ELSE IF m.exc # "None"
             THEN m
             ELSE IF m.meta.status \in NO_RESULT_TERMINAL_STATES
             THEN m
             ELSE CreateFuture(m)
    ELSE s

\* _get_future without the test of self._future.cancelled()
GetFuture_RestartsCancelled(s) ==
    IF s._future.kind = "none"
    THEN CreateFuture(s)
    ELSE IF FutureDone(s._future) /\ s._result = None
    THEN LET m == [metadata(s, FALSE) EXCEPT
                      !.recheck = IF RemoteOk(s) THEN remote.status ELSE "RemoteCallFailure"]
         IN  IF m.exc # "None"
             THEN m
             ELSE IF m.meta.status \in NO_RESULT_TERMINAL_STATES
             THEN m
             ELSE CreateFuture(m)
    ELSE s

\* AwsQuantumTask._get_future
GetFuture(s) ==
    IF s._future.kind = "none"
    THEN CreateFuture(s)
    ELSE IF FutureDone(s._future) /\ ~FutureCancelled(s._future) /\ s._result = None
    THEN LET m == [metadata(s, FALSE) EXCEPT
                      !.recheck = IF RemoteOk(s) THEN remote.status ELSE "RemoteCallFailure"]
         IN  IF m.exc # "None"
             THEN m
             ELSE IF m.meta.status \in NO_RESULT_TERMINAL_STATES
             THEN m
             ELSE CreateFuture(m)
    ELSE s

\* _cancel_future that also drops the memoized result
CancelFuture_ClearsResult(s) ==
    IF s._future.kind # "none"
    THEN IF FutureDone(s._future)
         THEN [s EXCEPT !._result = None]
         ELSE [s EXCEPT !._future.mustCancel = TRUE, !._result = None]
    ELSE [s EXCEPT !._future = [kind |-> "Future", id |-> 0, state |-> "cancelled",
                                value |-> None, exception |-> "None",
                                mustCancel |-> FALSE],
                   !._result = None]

\* _cancel_future without the hasattr test: self._future does not exist
CancelFuture_NoHasattr(s) ==
    IF s._future.kind # "none"
    THEN IF FutureDone(s._future)
         THEN s
         ELSE [s EXCEPT !._future.mustCancel = TRUE]
    ELSE [s EXCEPT !.exc = "AttributeError"]

\* _cancel_future that marks a future as cancelled even when it is done
CancelFuture_CancelsDone(s) ==
    IF s._future.kind # "none"
    THEN IF FutureDone(s._future)
         THEN [s EXCEPT !._future.state = "cancelled"]
         ELSE [s EXCEPT !._future.mustCancel = TRUE]
    ELSE [s EXCEPT !._future = [kind |-> "Future", id |-> 0, state |-> "cancelled",
                                value |-> None, exception |-> "None",
                                mustCancel |-> FALSE]]

\* AwsQuantumTask._cancel_future
CancelFuture(s) ==
    IF s._future.kind # "none"
    THEN IF FutureDone(s._future)
         THEN s
         ELSE [s EXCEPT !._future.mustCancel = TRUE]
    ELSE [s EXCEPT !._future = [kind |-> "Future", id |-> 0, state |-> "cancelled",
                                value |-> None, exception |-> "None",
                                mustCancel |-> FALSE]]

\* AwsQuantumTask.cancel
cancel(s) ==
    LET s1 == CancelFuture(s)
    IN  IF s1.exc # "None"
        THEN s1
        ELSE [s1 EXCEPT !.calls = @ + 1,
                        !.io = Logged(@, CancelCall(RemoteOk(s1))),
                        !.exc = IF RemoteOk(s1) THEN "None" ELSE "RemoteCallFailure"]

\* result() without the except clause: the cancellation reaches the caller
ResultOutcome_PropagatesCancel(s) ==
    IF s._future.state = "cancelled"
    THEN [result |-> None, raised |-> "CancelledError"]
    ELSE IF s._future.state = "failed"
    THEN [result |-> None, raised |-> s._future.exception]
    ELSE [result |-> s._future.value, raised |-> "None"]

\* what run_until_complete(future) gives result() once the future is done:
\* the value and the exception result() ends with
ResultOutcome(s) ==
    IF s._future.state = "cancelled"
    THEN [result |-> s._result, raised |-> "None"]
    ELSE IF s._future.state = "failed"
    THEN [result |-> None, raised |-> s._future.exception]
    ELSE [result |-> s._future.value, raised |-> "None"]

\* ----------------------------------------------------------- submission
\* shots ranges over -1..MaxShots
MaxShots == 1
\* a circuit's qubit_count ranges over 1..MaxQubits
MaxQubits == 2

\* a device ARN is the sequence of its components; "token" in device_arn
InArn(token, device_arn) == \E i \in DOMAIN device_arn : device_arn[i] = token

\* the task specifications create() is given: circuits, an annealing problem,
\* and an object that is neither
Circuits ==
    [variant : {"Circuit"}, qubit_count : 1..MaxQubits, instructions : BOOLEAN,
     result_type : {"none", "amplitude", "expectation"}]
TheProblem ==
    [variant |-> "Problem", qubit_count |-> 0, instructions |-> FALSE, result_type |-> "none"]
NotASpecification ==
    [variant |-> "str", qubit_count |-> 0, instructions |-> FALSE, result_type |-> "none"]

\* validate_circuit_and_shots: the exception it raises ("None": it returns)
ValidateCircuitAndShots(circuit, shots) ==
    IF ~circuit.instructions THEN "ValueError"
    ELSE IF shots = 0 /\ circuit.result_type = "none" THEN "ValueError"
    ELSE IF shots # 0 /\ circuit.result_type = "amplitude" THEN "ValueError"
    ELSE "None"

\* the deviceParameters of a request that has none yet
NoDeviceParameters == [shape |-> "None", qubitCount |-> 0]

\* the device parameters of a Circuit overload that looks for "rigetti" first
CircuitDeviceParameters_RigettiFirst(circuit, device_arn) ==
    IF InArn("rigetti", device_arn)
    THEN [shape |-> "RigettiDeviceParameters", qubitCount |-> circuit.qubit_count]
    ELSE IF InArn("ionq", device_arn)
    THEN [shape |-> "IonqDeviceParameters", qubitCount |-> circuit.qubit_count]
    ELSE [shape |-> "GateModelSimulatorDeviceParameters", qubitCount |-> circuit.qubit_count]

\* the device parameters the Circuit overload builds from the device ARN
CircuitDeviceParameters(circuit, device_arn) ==
    IF InArn("ionq", device_arn)
    THEN [shape |-> "IonqDeviceParameters", qubitCount |-> circuit.qubit_count]
    ELSE IF InArn("rigetti", device_arn)
    THEN [shape |-> "RigettiDeviceParameters", qubitCount |-> circuit.qubit_count]
    ELSE [shape |-> "GateModelSimulatorDeviceParameters", qubitCount |-> circuit.qubit_count]

\* _create_common_params with the shots argument dropped
CreateCommonParams_DropsShots(device_arn, s3_destination_folder, shots) ==
    [deviceArn |-> device_arn, outputS3Bucket |-> s3_destination_folder[1],
     outputS3KeyPrefix |-> s3_destination_folder[2], shots |-> 0,
     action |-> "None", deviceParameters |-> NoDeviceParameters]

\* _create_common_params
CreateCommonParams(device_arn, s3_destination_folder, shots) ==
    [deviceArn |-> device_arn, outputS3Bucket |-> s3_destination_folder[1],
     outputS3KeyPrefix |-> s3_destination_folder[2], shots |-> shots,
     action |-> "None", deviceParameters |-> NoDeviceParameters]

\* what a create() call has done when it has made no remote call and has
\* neither raised nor returned a handle
NothingCreated ==
    [raised |-> "None", submits |-> 0,
     request |-> [deviceArn |-> <<>>, outputS3Bucket |-> "None",
                  outputS3KeyPrefix |-> "None", shots |-> 0, action |-> "None",
                  deviceParameters |-> NoDeviceParameters],
     handle |-> "None"]

\* aws_session.create_quantum_task(**create_task_kwargs) followed by
\* AwsQuantumTask(task_arn, ...): the call fails, or returns task_arn
CreateQuantumTask(create_task_kwargs, ok, task_arn) ==
    [raised |-> IF ok THEN "None" ELSE "RemoteCallFailure",
     submits |-> 1,
     request |-> create_task_kwargs,
     handle |-> IF ok THEN task_arn ELSE "None"]

\* _create_internal, the Circuit overload
CreateInternalCircuit(circuit, create_task_kwargs, device_arn, ok, task_arn) ==
    IF ValidateCircuitAndShots(circuit, create_task_kwargs.shots) # "None"
    THEN [NothingCreated EXCEPT
            !.raised = ValidateCircuitAndShots(circuit, create_task_kwargs.shots)]
    ELSE CreateQuantumTask(
            [create_task_kwargs EXCEPT
                !.action = "circuit_ir",
                !.deviceParameters = CircuitDeviceParameters(circuit, device_arn)],
            ok, task_arn)

\* _create_internal, the Problem overload
CreateInternalProblem(problem, create_task_kwargs, device_parameters, ok, task_arn) ==
    IF device_parameters # "dwave_parameters"
    THEN [NothingCreated EXCEPT !.raised = "ValidationError"]
    ELSE CreateQuantumTask(
            [create_task_kwargs EXCEPT
                !.action = "problem_ir",
                !.deviceParameters = [shape |-> "DwaveDeviceParameters", qubitCount |-> 0]],
            ok, task_arn)

\* _create_internal that submits whatever is not a circuit as a problem
CreateInternal_FallsThrough(task_specification, create_task_kwargs, device_parameters, device_arn, ok, task_arn) ==
    IF task_specification.variant = "Circuit"
    THEN CreateInternalCircuit(task_specification, create_task_kwargs, device_arn,
                               ok, task_arn)
    ELSE CreateInternalProblem(task_specification, create_task_kwargs,
                               device_parameters, ok, task_arn)

\* _create_internal: dispatch on the type of the task specification
CreateInternal(task_specification, create_task_kwargs, device_parameters, device_arn, ok, task_arn) ==
    IF task_specification.variant = "Circuit"
    THEN CreateInternalCircuit(task_specification, create_task_kwargs, device_arn,
                               ok, task_arn)
    ELSE IF task_specification.variant = "Problem"
    THEN CreateInternalProblem(task_specification, create_task_kwargs,
                               device_parameters, ok, task_arn)
    ELSE [NothingCreated EXCEPT !.raised = "TypeError"]

\* create() that only rejects an output location with fewer than 2 components
Create_AcceptsLongerLocation(task_specification, device_arn, s3_destination_folder, shots, device_parameters, ok, task_arn) ==
    IF Len(s3_destination_folder) < 2
    THEN [NothingCreated EXCEPT !.raised = "ValueError"]
    ELSE CreateInternal(task_specification,
                        CreateCommonParams(device_arn, s3_destination_folder, shots),
                        device_parameters, device_arn, ok, task_arn)

\* AwsQuantumTask.create
Create(task_specification, device_arn, s3_destination_folder, shots, device_parameters, ok, task_arn) ==
    IF Len(s3_destination_folder) # 2
    THEN [NothingCreated EXCEPT !.raised = "ValueError"]
    ELSE CreateInternal(task_specification,
                        CreateCommonParams(device_arn, s3_destination_folder, shots),
                        device_parameters, device_arn, ok, task_arn)

\* the arguments of a create() call that has not been made
NoSubmission ==
    [task_specification |-> NotASpecification, device_arn |-> <<>>,
     s3_destination_folder |-> <<>>, shots |-> 0, device_parameters |-> "None",
     done |-> FALSE, task_arn |-> "None", out |-> NothingCreated]

\* ------------------------------------------- _format_result on an object
\* a raw result has at most MaxResultTypes result types
MaxResultTypes == 2

\* the exception _format_result raises on a raw result ("None": it returns):
\* no overload for its type, or complex(*value) on an amplitude value that is
\* not a list
FormatResultRaises(result) ==
    IF ~FormatResultSupported(result) THEN "TypeError"
    ELSE IF /\ result.schema = "GateModelTaskResult"
            /\ \E i \in DOMAIN result.resultTypes :
                 /\ result.resultTypes[i].type = "amplitude"
                 /\ \E st \in DOMAIN result.resultTypes[i].value :
                      result.resultTypes[i].value[st].kind # "list"
         THEN "TypeError"
         ELSE "None"

\* the raw result object after a _format_result call on it: the loop assigns
\* the complex values to result_type.value[state] of the object it was given
\* (the objects here have all their amplitude values as lists, or none)
FormatResultLeaves(result) ==
    IF FormatResultRaises(result) = "None" /\ result.schema = "GateModelTaskResult"
    THEN [result EXCEPT !.resultTypes =
            [i \in DOMAIN result.resultTypes |-> ConvertResultType(result.resultTypes[i])]]
    ELSE result

\* what a _format_result call on a raw result gives its caller
FormatResultOutcome(result) ==
    IF FormatResultRaises(result) = "None"
    THEN [result |-> FormatResult(result), raised |-> "None"]
    ELSE [result |-> None, raised |-> FormatResultRaises(result)]

\* the amplitude encodings and the result types of the raw results converted
RawValues == [{"00", "11"} -> {Pair(3, 4), Pair(0, 1)}]
RawResultTypes == [type : {"amplitude", "probability"}, value : RawValues]

\* the raw results: gate model results of up to MaxResultTypes result types, an
\* annealing result, and an object of another type
RawResults ==
    [schema : {"GateModelTaskResult"},
     resultTypes : UNION {[1..n -> RawResultTypes] : n \in 0..MaxResultTypes}]
    \cup {[schema |-> "AnnealingTaskResult", resultTypes |-> <<>>],
          [schema |-> "Unknown", resultTypes |-> <<>>]}

\* no _format_result call made, on no object
NoConversion ==
    [raw0 |-> [schema |-> "Unknown", resultTypes |-> <<>>],
     raw |-> [schema |-> "Unknown", resultTypes |-> <<>>],
     n |-> 0,
     first |-> [result |-> None, raised |-> "None"],
     second |-> [result |-> None, raised |-> "None"]]

\* ------------------------------------------------------ __eq__, __hash__
\* the task ARNs the service gives out
TaskArns == {"task/1", "task/2"}

\* handles in every cached state, and the ARN strings themselves
Handles ==
    [kind : {"AwsQuantumTask"}, _arn : TaskArns,
     status : {"None", "QUEUED", "COMPLETED"}, has_result : BOOLEAN,
     poll_timeout_seconds : {0, MaxTimeout}, future : {"none", "pending", "finished"}]
ArnStrings ==
    [kind : {"str"}, _arn : TaskArns, status : {"None"}, has_result : {FALSE},
     poll_timeout_seconds : {0}, future : {"none"}]

\* hash() of a string
HashOfString(str) == IF str = "task/1" THEN 11 ELSE IF str = "task/2" THEN 22 ELSE 0

\* __eq__ that compares every attribute of the two handles
Eq_ComparesAttributes(self, other) ==
    IF other.kind = "AwsQuantumTask"
    THEN (IF self = other THEN "True" ELSE "False")
    ELSE "NotImplemented"

\* AwsQuantumTask.__eq__
Eq(self, other) ==
    IF other.kind = "AwsQuantumTask"
    THEN (IF self._arn = other._arn THEN "True" ELSE "False")
    ELSE "NotImplemented"

\* AwsQuantumTask.__hash__
Hash(self) == HashOfString(self._arn)

\* self == other, for two distinct objects: NotImplemented from __eq__ (and from
\* the other object's reflected __eq__) leaves the comparison of identities
Equals(self, other) ==
    IF Eq(self, other) = "NotImplemented" THEN FALSE ELSE Eq(self, other) = "True"

\* nothing compared
NoComparison ==
    [a |-> [kind |-> "None", _arn |-> "None", status |-> "None", has_result |-> FALSE,
            poll_timeout_seconds |-> 0, future |-> "none"],
     b |-> [kind |-> "None", _arn |-> "None", status |-> "None", has_result |-> FALSE,
            poll_timeout_seconds |-> 0, future |-> "none"],
     compared |-> FALSE, equal |-> FALSE, hashed |-> FALSE, hash_a |-> 0, hash_b |-> 0]

\* ------------------------------------------------------------ the calls
\* what a caller has seen of no call yet
NoCall ==
    [call |-> "none", returned |-> TRUE, raised |-> "None", result |-> None,
     meta |-> EmptyMetadata, status |-> "None", future |-> 0, created |-> FALSE,
     recheck |-> "None", io |-> NoCalls, response |-> EmptyMetadata,
     metadata_after |-> EmptyMetadata, pre_future |-> NoFuture, pre_result |-> None,
     pre_metadata |-> EmptyMetadata, pre_outcome |-> "none"]

\* a result(), async_result() or cancel() call that starts in the current state
\* and has brought the handle to s: what it did, and the future, the result and
\* the outcome of the polling operation it found
Observed(name, s) ==
    [NoCall EXCEPT !.call = name, !.raised = s.exc, !.io = s.io,
                   !.future = s._future.id, !.created = s.created,
                   !.recheck = s.recheck,
                   !.pre_future = _future, !.pre_result = _result,
                   !.pre_outcome = coro.outcome]

\* a metadata() or state() call that starts in the current state and has brought
\* the handle to s: what it did, and the cached metadata it found
ObservedRead(name, s) ==
    [NoCall EXCEPT !.call = name, !.raised = s.exc, !.io = s.io,
                   !.response = IF s.io.getStatus > 0 /\ s.exc = "None"
                                THEN remote ELSE EmptyMetadata,
                   !.metadata_after = s._metadata,
                   !.pre_metadata = _metadata]

\* the handle's fields take the values the call left in s
Commit(s) ==
    /\ _metadata' = s._metadata
    /\ _result' = s._result
    /\ _future' = s._future
    /\ coro' = s.coro
    /\ running' = s.running
    /\ opLog' = s.opLog
    /\ lastFetch' = s.lastFetch

\* which remote call of a step fails: none (0), or the first, second or third
\* (a step issues at most a status re-check, a status poll and a blob fetch)
FailPoints == 0..3

\* the polling coroutine can be resumed: its sleep is over, or it was cancelled
Resumable ==
    /\ _future.kind = "Task"
    /\ _future.state = "pending"
    /\ (coro.sleep = 0 \/ _future.mustCancel)

Init ==
    /\ _metadata = EmptyMetadata
    /\ _result = None
    /\ _future = NoFuture
    /\ _poll_timeout_seconds \in 0..MaxTimeout
    /\ _poll_interval_seconds \in 1..MaxInterval
    /\ coro = [elapsed |-> 0, sleep |-> 0, clock0 |-> 0, outcome |-> "none"]
    /\ \E status \in TaskStates, output \in TaskOutputs :
         remote = [status |-> status, outputS3Bucket |-> output[1],
                   outputS3Directory |-> output[2]]
    /\ pc = "idle"
    /\ running = {}
    /\ opLog = NoCalls
    /\ lastFetch = EmptyMetadata
    /\ cancelledWith = None
    /\ last = NoCall
    /\ submission = NoSubmission
    /\ conversion = NoConversion
    /\ comparison = NoComparison

\* AwsQuantumTask.async_result
AsyncResult ==
    /\ pc = "idle"
    /\ \E fail \in FailPoints :
         LET s1 == GetFuture(Self(fail))
         IN  /\ fail <= s1.calls
             /\ Commit(s1)
             /\ last' = Observed("async_result", s1)
    /\ UNCHANGED <<functionVars, _poll_timeout_seconds, _poll_interval_seconds, remote, pc, cancelledWith>>

\* AwsQuantumTask.result, up to the point where it returns or blocks in
\* run_until_complete on a future that is not done
Result ==
    /\ pc = "idle"
    /\ \E fail \in FailPoints :
         LET s1 == GetFuture(Self(fail))
             obs == Observed("result", s1)
         IN  /\ fail <= s1.calls
             /\ Commit(s1)
             /\ IF s1.exc # "None"
                THEN /\ last' = obs
                     /\ pc' = "idle"
                ELSE IF FutureDone(s1._future)
                THEN /\ last' = [obs EXCEPT !.result = ResultOutcome(s1).result,
                                            !.raised = ResultOutcome(s1).raised]
                     /\ pc' = "idle"
                ELSE /\ last' = [obs EXCEPT !.returned = FALSE]
                     /\ pc' = "blocked"
    /\ UNCHANGED <<functionVars, _poll_timeout_seconds, _poll_interval_seconds, remote, cancelledWith>>

\* AwsQuantumTask.result, blocked in run_until_complete: the loop resumes the
\* polling coroutine; result() returns when that settles the future
ResultResume ==
    /\ pc = "blocked"
    /\ Resumable
    /\ \E fail \in FailPoints :
         LET s1 == WaitForCompletion([Self(fail) EXCEPT !.io = last.io])
         IN  /\ fail <= s1.calls
             /\ Commit(s1)
             /\ IF FutureDone(s1._future)
                THEN /\ last' = [last EXCEPT !.io = s1.io, !.returned = TRUE,
                                             !.result = ResultOutcome(s1).result,
                                             !.raised = ResultOutcome(s1).raised]
                     /\ pc' = "idle"
                ELSE /\ last' = [last EXCEPT !.io = s1.io]
                     /\ pc' = "blocked"
    /\ UNCHANGED <<functionVars, _poll_timeout_seconds, _poll_interval_seconds, remote, cancelledWith>>

\* the caller runs the event loop itself (awaits the future async_result gave):
\* the loop resumes the polling coroutine
CallerRunsLoop ==
    /\ pc = "idle"
    /\ Resumable
    /\ \E fail \in FailPoints :
         LET s1 == WaitForCompletion(Self(fail))
         IN  /\ fail <= s1.calls
             /\ Commit(s1)
    /\ UNCHANGED <<functionVars, _poll_timeout_seconds, _poll_interval_seconds, remote, pc,
                   cancelledWith, last>>

\* AwsQuantumTask.cancel
Cancel ==
    /\ pc = "idle"
    /\ \E fail \in FailPoints :
         LET s1 == cancel(Self(fail))
         IN  /\ fail <= s1.calls
             /\ Commit(s1)
             /\ last' = Observed("cancel", s1)
    /\ cancelledWith' = IF FutureDone(_future) THEN cancelledWith ELSE _result
    /\ UNCHANGED <<functionVars, _poll_timeout_seconds, _poll_interval_seconds, remote, pc>>

\* AwsQuantumTask.metadata, called by the user of the handle
Metadata ==
    /\ pc = "idle"
    /\ \E use_cached_value \in BOOLEAN, fail \in FailPoints :
         LET s1 == metadata(Self(fail), use_cached_value)
         IN  /\ fail <= s1.calls
             /\ Commit(s1)
             /\ last' = [ObservedRead(IF use_cached_value THEN "metadata(True)"
                                  ELSE "metadata(False)", s1)
                           EXCEPT !.meta = s1.meta]
    /\ UNCHANGED <<functionVars, _poll_timeout_seconds, _poll_interval_seconds, remote, pc, cancelledWith>>

\* AwsQuantumTask.state
State ==
    /\ pc = "idle"
    /\ \E use_cached_value \in BOOLEAN, fail \in FailPoints :
         LET s1 == metadata(Self(fail), use_cached_value)
         IN  /\ fail <= s1.calls
             /\ Commit(s1)
             /\ last' = [ObservedRead(IF use_cached_value THEN "state(True)"
                                  ELSE "state(False)", s1)
                           EXCEPT !.status = s1.meta.status]
    /\ UNCHANGED <<functionVars, _poll_timeout_seconds, _poll_interval_seconds, remote, pc, cancelledWith>>

\* time passes: time.time() - start_time grows (no further than the timeout it
\* is compared with) and the coroutine's sleep runs down
Tick ==
    /\ _future.kind = "Task"
    /\ _future.state = "pending"
    /\ coro.elapsed < _poll_timeout_seconds \/ coro.sleep > 0
    /\ coro' = [coro EXCEPT
                  !.elapsed = IF @ < _poll_timeout_seconds THEN @ + 1 ELSE @,
                  !.sleep = IF @ > 0 THEN @ - 1 ELSE 0]
    /\ UNCHANGED <<functionVars, _metadata, _result, _future, _poll_timeout_seconds,
                   _poll_interval_seconds, remote, pc, running, opLog,
                   lastFetch, cancelledWith, last>>

\* the service moves the task on: QUEUED -> RUNNING -> COMPLETED or FAILED, and
\* a task that is not terminal can become CANCELLED
RemoteStep ==
    /\ \E status \in TaskStates :
         /\ \/ remote.status = "QUEUED" /\ status \in {"RUNNING", "CANCELLED"}
            \/ remote.status = "RUNNING" /\ status \in {"COMPLETED", "FAILED", "CANCELLED"}
         /\ remote' = [remote EXCEPT !.status = status]
    /\ UNCHANGED <<functionVars, _metadata, _result, _future, _poll_timeout_seconds,
                   _poll_interval_seconds, coro, pc, running, opLog,
                   lastFetch, cancelledWith, last>>

Next ==
    \/ AsyncResult
    \/ Result
    \/ ResultResume
    \/ CallerRunsLoop
    \/ Cancel
    \/ Metadata
    \/ State
    \/ Tick
    \/ RemoteStep

Spec == Init /\ [][Next]_vars

\* ENABLED <<ResultResume>>_vars: a resumption always changes the coroutine
ResultResumeEnabled == pc = "blocked" /\ Resumable

\* the handle while time advances and run_until_complete, once result() has
\* entered it, keeps running the event loop, so that the sleeping coroutine is
\* resumed when its sleep is over: weak fairness of Tick and of ResultResume
\* (the latter with its ENABLED written out as ResultResumeEnabled)
LiveSpec ==
    /\ Spec
    /\ WF_vars(Tick)
    /\ ([]<>(~ResultResumeEnabled) \/ []<><<ResultResume>>_vars)

\* ------------------------------------------- the module-level functions
\* no handle is in use
HandleUnused ==
    /\ _metadata = EmptyMetadata
    /\ _result = None
    /\ _future = NoFuture
    /\ _poll_timeout_seconds = 0
    /\ _poll_interval_seconds = 1
    /\ coro = [elapsed |-> 0, sleep |-> 0, clock0 |-> 0, outcome |-> "none"]
    /\ remote = [status |-> "QUEUED", outputS3Bucket |-> "bucketX",
                 outputS3Directory |-> "prefixY"]
    /\ pc = "idle"
    /\ running = {}
    /\ opLog = NoCalls
    /\ lastFetch = EmptyMetadata
    /\ cancelledWith = None
    /\ last = NoCall

handleVars == <<_metadata, _result, _future, _poll_timeout_seconds,
                _poll_interval_seconds, coro, remote, pc, running, opLog,
                lastFetch, cancelledWith, last>>

\* the arguments create() is called with
DeviceArns ==
    {<<"device", "qpu", "ionq">>, <<"device", "qpu", "rigetti">>,
     <<"device", "quantum-simulator">>, <<"device", "rigetti", "ionq">>}
OutputLocations ==
    {<<>>, <<"bucketX">>, <<"bucketX", "prefixY">>, <<"bucketZ", "prefixW">>,
     <<"bucketX", "prefixY", "results">>}
DeviceParameters == {"dwave_parameters", "malformed"}

InitCreate ==
    /\ HandleUnused
    /\ \E task_specification \in Circuits \cup {TheProblem, NotASpecification},
          device_arn \in DeviceArns,
          s3_destination_folder \in OutputLocations,
          shots \in -1..MaxShots,
          device_parameters \in DeviceParameters :
         submission = [NoSubmission EXCEPT
                         !.task_specification = task_specification,
                         !.device_arn = device_arn,
                         !.s3_destination_folder = s3_destination_folder,
                         !.shots = shots,
                         !.device_parameters = device_parameters]
    /\ conversion = NoConversion
    /\ comparison = NoComparison

\* AwsQuantumTask.create is called; the service, if asked, accepts the task and
\* answers with a task ARN, or the call to it fails
CreateCall ==
    /\ ~submission.done
    /\ \E ok \in BOOLEAN, task_arn \in TaskArns :
         LET out == Create(submission.task_specification, submission.device_arn,
                           submission.s3_destination_folder, submission.shots,
                           submission.device_parameters, ok, task_arn)
         IN  /\ out.submits = 0 => ok /\ task_arn = "task/1"
             /\ ~ok => task_arn = "task/1"
             /\ submission' = [submission EXCEPT
                                 !.done = TRUE,
                                 !.task_arn = IF out.submits > 0 /\ ok
                                              THEN task_arn ELSE "None",
                                 !.out = out]
    /\ UNCHANGED <<handleVars, conversion, comparison>>

NextCreate == CreateCall

SpecCreate == InitCreate /\ [][NextCreate]_vars

InitFormat ==
    /\ HandleUnused
    /\ submission = NoSubmission
    /\ \E result \in RawResults :
         conversion = [NoConversion EXCEPT !.raw0 = result, !.raw = result]
    /\ comparison = NoComparison

\* _format_result is called on the raw result object
FormatResultCall ==
    /\ conversion.n = 0
    /\ conversion' = [conversion EXCEPT
                        !.n = 1,
                        !.first = FormatResultOutcome(conversion.raw),
                        !.raw = FormatResultLeaves(conversion.raw)]
    /\ UNCHANGED <<handleVars, submission, comparison>>

\* _format_result is called on the same object once more
FormatResultAgain ==
    /\ conversion.n = 1
    /\ conversion' = [conversion EXCEPT
                        !.n = 2,
                        !.second = FormatResultOutcome(conversion.raw),
                        !.raw = FormatResultLeaves(conversion.raw)]
    /\ UNCHANGED <<handleVars, submission, comparison>>

NextFormat == FormatResultCall \/ FormatResultAgain

SpecFormat == InitFormat /\ [][NextFormat]_vars

InitEq ==
    /\ HandleUnused
    /\ submission = NoSubmission
    /\ conversion = NoConversion
    /\ \E a \in Handles, b \in Handles \cup ArnStrings :
         comparison = [NoComparison EXCEPT !.a = a, !.b = b]

\* a == b
Compare ==
    /\ ~comparison.compared
    /\ comparison' = [comparison EXCEPT
                        !.compared = TRUE,
                        !.equal = Equals(comparison.a, comparison.b)]
    /\ UNCHANGED <<handleVars, submission, conversion>>

\* hash(a) and hash(b); the hash of an ARN string is that of the string
HashBoth ==
    /\ ~comparison.hashed
    /\ comparison' = [comparison EXCEPT
                        !.hashed = TRUE,
                        !.hash_a = Hash(comparison.a),
                        !.hash_b = IF comparison.b.kind = "AwsQuantumTask"
                                   THEN Hash(comparison.b)
                                   ELSE HashOfString(comparison.b._arn)]
    /\ UNCHANGED <<handleVars, submission, conversion>>

NextEq == Compare \/ HashBoth

SpecEq == InitEq /\ [][NextEq]_vars

\* ---------------------------------------------------------------- claims
\* the polling operation of the handle has not settled
Unsettled(f) == f.kind = "Task" /\ ~FutureDone(f)

\* C1: at most one polling operation of the handle is unsettled at any time, and
\* an async_result() call made while the current operation has not settled
\* returns that same operation and starts no new one
C1_AtMostOneInFlight ==
    /\ Cardinality(running) <= 1
    /\ running = IF Unsettled(_future) THEN {_future.id} ELSE {}
    /\ (last.call = "async_result" /\ Unsettled(last.pre_future))
          => /\ last.future = last.pre_future.id
             /\ ~last.created
             /\ last.io = NoCalls
             /\ last.raised = "None"

\* async_result() was called on a handle whose operation was in flight
C1_Witness ==
    /\ last.call = "async_result"
    /\ Unsettled(last.pre_future)
    /\ last.future = last.pre_future.id
    /\ running = {last.future}

\* C2: once self._result holds a concrete result, no step changes it
C2_ResultNeverOverwritten ==
    [][_result # None => _result' = _result]_vars

\* a call was made on a handle that already held a concrete result
C2_Witness ==
    /\ last.call \in {"result", "async_result", "cancel"}
    /\ last.pre_result # None
    /\ _result = last.pre_result

\* C3: a result() call on a handle that has memoized a concrete result returns
\* that result and issues no getStatus and no fetchBlob call
C3_MemoizedResultReturned ==
    (last.call = "result" /\ last.pre_result # None)
       => /\ last.returned
          /\ last.raised = "None"
          /\ last.result = last.pre_result
          /\ last.io = NoCalls
          /\ ~last.created

\* result() returned the memoized gate-model result without a remote call
C3_Witness ==
    /\ last.call = "result"
    /\ last.pre_result # None
    /\ last.result = last.pre_result
    /\ last.result.type = "GateModelQuantumTaskResult"
    /\ last.io = NoCalls

\* result() was called on a handle whose operation settled empty on a
\* no-result terminal status
AfterNoResult ==
    /\ last.call = "result"
    /\ last.pre_outcome = "noresult"
    /\ last.pre_future.state = "finished"

\* C4 as stated: after "no result" is memoized, result() returns the empty value
\* without any getStatus or fetchBlob call
C4_Original ==
    AfterNoResult
       => /\ last.returned
          /\ last.result = None
          /\ last.io.getStatus = 0
          /\ last.io.fetchBlob = 0

\* C4 amended: after "no result" is memoized for a FAILED or CANCELLED task, each
\* result() call re-fetches the status once; when the re-check reports a
\* no-result terminal status again, the call issues no other remote call, starts
\* no polling operation and returns the same empty value
C4_NoResultRechecked ==
    AfterNoResult
       => /\ last.io.getStatus >= 1
          /\ last.recheck # "None"
          /\ last.recheck \in NO_RESULT_TERMINAL_STATES
                => /\ last.returned
                   /\ last.raised = "None"
                   /\ last.result = None
                   /\ last.io.getStatus = 1
                   /\ last.io.fetchBlob = 0
                   /\ last.io.cancel = 0
                   /\ ~last.created
                   /\ last.future = last.pre_future.id

\* result() was called again on a FAILED task and returned empty after one re-check
C4_Witness ==
    /\ AfterNoResult
    /\ last.recheck = "FAILED"
    /\ last.returned
    /\ last.result = None
    /\ last.io.getStatus = 1

\* C5: a cached metadata()/state() read issues no remote call, leaves the cache
\* as it is and returns it; an uncached one issues exactly one getStatus call,
\* stores the response in the cache and returns it; the cache always holds the
\* most recent response
C5_MetadataCaching ==
    /\ _metadata = lastFetch
    /\ last.call \in {"metadata(True)", "state(True)"}
          => /\ last.io = NoCalls
             /\ last.raised = "None"
             /\ last.metadata_after = last.pre_metadata
             /\ last.call = "metadata(True)" => last.meta = last.pre_metadata
             /\ last.call = "state(True)" => last.status = last.pre_metadata.status
    /\ last.call \in {"metadata(False)", "state(False)"}
          => /\ last.io.getStatus = 1
             /\ last.io.fetchBlob = 0
             /\ last.io.cancel = 0
             /\ last.raised = "None"
                   => /\ last.metadata_after = last.response
                      /\ last.call = "metadata(False)" => last.meta = last.response
                      /\ last.call = "state(False)" => last.status = last.response.status

\* an uncached state() replaced a cache that held an older status
C5_Witness ==
    /\ last.call = "state(False)"
    /\ last.raised = "None"
    /\ last.pre_metadata.status = "QUEUED"
    /\ last.status = "COMPLETED"
    /\ last.metadata_after.status = "COMPLETED"

\* C6: every cancel() call issues exactly one remote cancel call and no other
\* remote call, and raises nothing but a failure of that remote call
C6_CancelAlwaysCallsRemote ==
    last.call = "cancel"
       => /\ last.io.cancel = 1
          /\ last.io.getStatus = 0
          /\ last.io.fetchBlob = 0
          /\ last.raised \in {"None", "RemoteCallFailure"}

\* cancel() was called on a handle that never had a polling operation
C6_Witness ==
    /\ last.call = "cancel"
    /\ last.pre_future.kind = "none"
    /\ last.raised = "None"
    /\ last.io.cancel = 1
    /\ FutureCancelled(_future)

\* C7: result() on a handle whose operation was cancelled raises nothing and
\* returns the result cached when it was cancelled
C7_CancelledResultReturnsCached ==
    (last.call = "result" /\ last.returned /\ FutureCancelled(_future))
       => /\ last.raised = "None"
          /\ last.result = cancelledWith
          /\ last.result = _result

\* result() returned after a polling operation in flight had been cancelled
C7_Witness ==
    /\ last.call = "result"
    /\ last.returned
    /\ _future.kind = "Task"
    /\ FutureCancelled(_future)
    /\ last.raised = "None"
    /\ last.result = None

\* C8: a polling operation that runs out of its timeout settles empty and
\* without an error; the next result()/async_result() call, when its status
\* re-check does not report a no-result terminal status, starts a new polling
\* operation whose elapsed time starts at zero
C8_TimeoutThenRestart ==
    /\ coro.outcome = "timeout"
          => /\ _future.state = "finished"
             /\ _future.value = None
             /\ _future.exception = "None"
             /\ _result = None
             /\ ~opLog.noResultSeen
             /\ ~opLog.readySeen
    /\ (last.call \in {"result", "async_result"} /\ last.pre_outcome = "timeout")
          => /\ last.recheck # "None"
             /\ last.recheck \in NonTerminalStates \cup RESULTS_READY_STATES
                   => /\ last.created
                      /\ last.future # last.pre_future.id
                      /\ coro.clock0 = 0

\* a call after a timeout found the task still running and started a new operation
C8_Witness ==
    /\ last.call = "result"
    /\ last.pre_outcome = "timeout"
    /\ last.pre_future.state = "finished"
    /\ last.recheck = "RUNNING"
    /\ last.created
    /\ coro.clock0 = 0
    /\ _poll_timeout_seconds > 0

\* the result the Result Dispatcher gives for the object at the task's output location
ExpectedResult ==
    FormatResult(ParseRawSchema(
        S3Body(remote.outputS3Bucket, remote.outputS3Directory \o "/results.json")))

\* C9: a polling operation that receives a no-result terminal status settles
\* empty at once: that response is its last remote call, it has fetched no
\* blob, and it has issued one getStatus call more than it received
\* non-terminal statuses; a result() call on a fresh handle that ends this way
\* returns empty after exactly those calls
C9_TerminalNoResult ==
    /\ opLog.noResultSeen
          => /\ _future.state = "finished"
             /\ _future.value = None
             /\ _result = None
             /\ coro.outcome = "noresult"
             /\ opLog.late = 0
             /\ opLog.fetchBlob = 0
             /\ opLog.getStatus = opLog.nonTerminal + 1
    /\ (/\ last.call = "result"
        /\ last.returned
        /\ last.pre_future.kind = "none"
        /\ coro.outcome = "noresult")
          => /\ last.raised = "None"
             /\ last.result = None
             /\ last.io = opLog

\* result() on a fresh handle saw two non-terminal statuses and then FAILED
C9_Witness ==
    /\ last.call = "result"
    /\ last.returned
    /\ last.pre_future.kind = "none"
    /\ remote.status = "FAILED"
    /\ last.io.getStatus = 3
    /\ last.io.nonTerminal = 2
    /\ last.io.fetchBlob = 0
    /\ last.result = None

\* C10: a polling operation fetches a blob only after a COMPLETED response, and
\* then exactly once, from the metadata's bucket at directory + "/results.json",
\* as its last remote call; the value it returns and memoizes is the Result
\* Dispatcher's conversion of that object
C10_ResultFetchedOnce ==
    /\ opLog.early = 0
    /\ opLog.fetchBlob <= 1
    /\ opLog.readySeen
          => /\ opLog.fetchBlob = 1
             /\ opLog.bucket = remote.outputS3Bucket
             /\ opLog.key = remote.outputS3Directory \o "/results.json"
             /\ opLog.late = 0
             /\ FutureDone(_future)
    /\ coro.outcome = "ready"
          => /\ opLog.readySeen
             /\ _future.state = "finished"
             /\ _future.value = ExpectedResult
             /\ _result = ExpectedResult
    /\ (last.call = "result" /\ last.returned /\ coro.outcome = "ready")
          => /\ last.raised = "None"
             /\ last.result = ExpectedResult

\* result() saw QUEUED, then COMPLETED, and returned the converted gate-model result
C10_Witness ==
    /\ last.call = "result"
    /\ last.returned
    /\ coro.outcome = "ready"
    /\ opLog.nonTerminal >= 1
    /\ opLog.fetchBlob = 1
    /\ opLog.bucket = "bucketX"
    /\ opLog.key = "prefixY/results.json"
    /\ last.result.type = "GateModelQuantumTaskResult"
    /\ last.result.resultTypes[1].value["00"] = Complex(3, 4)
    /\ last.result.resultTypes[2].value["00"] = Pair(1, 0)

\* the create() call was given a Circuit or a Problem that passes validation:
\* the circuit is compatible with the shots, the device parameters parse
PassesValidation ==
    \/ /\ submission.task_specification.variant = "Circuit"
       /\ ValidateCircuitAndShots(submission.task_specification, submission.shots) = "None"
    \/ /\ submission.task_specification.variant = "Problem"
       /\ submission.device_parameters = "dwave_parameters"

\* C11: a create() call with a Circuit or a Problem that passes validation, an
\* output location of two components and shots >= 0 has issued exactly one
\* submit call, whose request carries exactly the given device ARN, bucket, key
\* prefix and shots; if the call returned, the handle's id is the task ARN the
\* service answered with, and if it raised, it raised the failure of that call.
C11_CreateSubmitsOnce ==
    (/\ submission.done
     /\ PassesValidation
     /\ Len(submission.s3_destination_folder) = 2
     /\ submission.shots >= 0)
    => /\ submission.out.submits = 1
       /\ submission.out.request.deviceArn = submission.device_arn
       /\ submission.out.request.outputS3Bucket = submission.s3_destination_folder[1]
       /\ submission.out.request.outputS3KeyPrefix = submission.s3_destination_folder[2]
       /\ submission.out.request.shots = submission.shots
       /\ IF submission.out.raised = "None"
          THEN /\ submission.task_arn \in TaskArns
               /\ submission.out.handle = submission.task_arn
          ELSE /\ submission.out.raised = "RemoteCallFailure"
               /\ submission.out.handle = "None"

C11_Witness ==
    /\ submission.done
    /\ submission.task_specification.variant = "Problem"
    /\ submission.s3_destination_folder = <<"bucketZ", "prefixW">>
    /\ submission.shots = 1
    /\ submission.out.submits = 1
    /\ submission.out.request.shots = 1
    /\ submission.out.handle = "task/2"

\* C12: a create() call with an output location that does not have two
\* components has raised ValueError, has issued no remote call and has
\* returned no handle.
C12_BadLocationRejected ==
    (submission.done /\ Len(submission.s3_destination_folder) # 2)
    => /\ submission.out.raised = "ValueError"
       /\ submission.out.submits = 0
       /\ submission.out.handle = "None"

C12_Witness ==
    /\ submission.done
    /\ Len(submission.s3_destination_folder) = 3
    /\ submission.task_specification.variant = "Problem"
    /\ submission.device_parameters = "dwave_parameters"
    /\ submission.out.raised = "ValueError"
    /\ submission.out.submits = 0

\* C13: a create() call with negative shots has raised an error and has issued
\* no remote call, whatever the variant of the task specification.
C13_NegativeShotsRejected ==
    (submission.done /\ submission.shots < 0)
    => /\ submission.out.raised # "None"
       /\ submission.out.submits = 0

\* C14, as stated: a create() call with a task specification that is neither a
\* Circuit nor a Problem has raised TypeError and has issued no remote call.
C14_Original ==
    (/\ submission.done
     /\ submission.task_specification.variant \notin {"Circuit", "Problem"})
    => /\ submission.out.raised = "TypeError"
       /\ submission.out.submits = 0

\* C14: a create() call with a task specification that is neither a Circuit nor
\* a Problem has issued no remote call and has returned no handle; it has raised
\* TypeError if the output location has two components, and the ValueError of
\* the output location check, which comes first, if it has not.
C14_UnsupportedSpecification ==
    (/\ submission.done
     /\ submission.task_specification.variant \notin {"Circuit", "Problem"})
    => /\ submission.out.submits = 0
       /\ submission.out.handle = "None"
       /\ submission.out.raised = IF Len(submission.s3_destination_folder) = 2
                                  THEN "TypeError" ELSE "ValueError"

C14_Witness ==
    /\ submission.done
    /\ submission.task_specification.variant = "str"
    /\ Len(submission.s3_destination_folder) = 2
    /\ submission.device_parameters = "dwave_parameters"
    /\ submission.out.raised = "TypeError"
    /\ submission.out.submits = 0

\* C15: a remote call that fails is the last call of its operation: the polling
\* operation and the call in progress issue no call after a failed one (no
\* retry). A polling operation whose getStatus or fetchBlob failed has settled
\* with that failure; a result() call that returns from an operation settled
\* with the failure raises it, and a result() or cancel() call one of whose
\* remote calls failed raises the failure.
C15_FailurePropagatesNoRetry ==
    /\ opLog.afterFailure = 0
    /\ last.io.afterFailure = 0
    /\ opLog.failed > 0
       => /\ _future.state = "failed"
          /\ _future.exception = "RemoteCallFailure"
    /\ (/\ last.call = "result"
        /\ last.returned
        /\ _future.state = "failed"
        /\ _future.exception = "RemoteCallFailure")
       => last.raised = "RemoteCallFailure"
    /\ (last.call \in {"result", "cancel"} /\ last.returned /\ last.io.failed > 0)
       => last.raised = "RemoteCallFailure"

C15_Witness ==
    /\ last.call = "result"
    /\ last.returned
    /\ last.raised = "RemoteCallFailure"
    /\ last.io.getStatus = 2
    /\ last.io.nonTerminal = 1
    /\ last.io.fetchBlob = 1
    /\ last.io.failed = 1
    /\ opLog.failed = 1

\* C16: _format_result leaves the raw result object it is given as it was, and
\* a second call on the same object gives what the first call gave.
C16_FormatResultPure ==
    /\ conversion.n >= 1 => conversion.raw = conversion.raw0
    /\ conversion.n = 2 => conversion.second = conversion.first

\* C17: two handles that have been compared are equal exactly when their task
\* ARNs are equal, whatever status, result, poll timeout and future each holds;
\* two objects found equal have equal hashes.
C17_EqualIffSameId ==
    /\ (comparison.compared /\ comparison.b.kind = "AwsQuantumTask")
       => (comparison.equal <=> comparison.a._arn = comparison.b._arn)
    /\ (comparison.compared /\ comparison.hashed /\ comparison.equal)
       => comparison.hash_a = comparison.hash_b

C17_Witness ==
    /\ comparison.compared
    /\ comparison.hashed
    /\ comparison.equal
    /\ comparison.b.kind = "AwsQuantumTask"
    /\ comparison.a.status # comparison.b.status
    /\ comparison.a.has_result # comparison.b.has_result
    /\ comparison.a.poll_timeout_seconds # comparison.b.poll_timeout_seconds
    /\ comparison.a.future # comparison.b.future
    /\ comparison.hash_a = comparison.hash_b

\* C18, as stated: a polling operation settles with the timeout outcome only
\* after one of its getStatus calls returned a non-terminal status.
C18_Original ==
    coro.outcome = "timeout" => opLog.nonTerminal >= 1

\* C18: the timeout is tested before each status fetch. With a poll timeout of
\* 0 a polling operation issues no remote call and settles with the timeout
\* outcome at once, empty, whatever the status of the task. With a positive
\* poll timeout the first status fetch of an operation always happens: the
\* operation settles with the timeout outcome only after getStatus calls that
\* all returned a non-terminal status, at least one of them, and an operation
\* whose first fetch returned COMPLETED, and whose blob fetch did not fail, has
\* settled with the result.
C18_TimeoutTestedBeforeFetch ==
    /\ (_future.kind = "Task" /\ _poll_timeout_seconds = 0)
       => /\ opLog = NoCalls
          /\ coro.outcome = "timeout"
          /\ _future.state = "finished"
          /\ _future.value = None
    /\ (_future.kind = "Task" /\ _poll_timeout_seconds > 0)
       => /\ opLog.getStatus >= 1
          /\ coro.outcome = "timeout"
             => /\ opLog.nonTerminal >= 1
                /\ opLog.getStatus = opLog.nonTerminal
                /\ opLog.fetchBlob = 0
          /\ (opLog.getStatus = 1 /\ opLog.readySeen /\ opLog.failed = 0)
             => /\ coro.outcome = "ready"
                /\ _future.state = "finished"
                /\ _future.value = ExpectedResult
                /\ _result = ExpectedResult

\* result() on a fresh handle with poll timeout 0 returned empty without a
\* remote call although the task is COMPLETED
C18_Witness ==
    /\ _poll_timeout_seconds = 0
    /\ remote.status = "COMPLETED"
    /\ last.call = "result"
    /\ last.returned
    /\ last.pre_future.kind = "none"
    /\ last.io = NoCalls
    /\ last.result = None
    /\ coro.outcome = "timeout"

\* C19: an async_result() call that found the most recent polling operation
\* settled, not cancelled, and no result memoized has fetched the status once
\* before deciding. If that status was FAILED or CANCELLED it has issued no
\* other remote call, started no operation and returned the settled one; if the
\* fetch failed it has raised the failure and started nothing; otherwise it has
\* started a new operation, whose first step fetches the status once more
\* unless the poll timeout is 0.
C19_AsyncResultRechecksOnce ==
    (/\ last.call = "async_result"
     /\ last.pre_future.state \in {"finished", "failed"}
     /\ last.pre_result = None)
    => /\ last.recheck # "None"
       /\ last.recheck \in NO_RESULT_TERMINAL_STATES
          => /\ ~last.created
             /\ last.future = last.pre_future.id
             /\ last.raised = "None"
             /\ last.io.getStatus = 1
             /\ last.io.fetchBlob = 0
       /\ last.recheck = "RemoteCallFailure"
          => /\ ~last.created
             /\ last.future = last.pre_future.id
             /\ last.raised = "RemoteCallFailure"
             /\ last.io.getStatus = 1
             /\ last.io.fetchBlob = 0
       /\ last.recheck \in TaskStates \ NO_RESULT_TERMINAL_STATES
          => /\ last.created
             /\ last.future # last.pre_future.id
             /\ last.raised = "None"
             /\ last.io.getStatus = 1 + (IF _poll_timeout_seconds > 0 THEN 1 ELSE 0)

\* async_result() after a timed-out operation found the task CANCELLED
C19_Witness ==
    /\ last.call = "async_result"
    /\ last.pre_future.state = "finished"
    /\ last.pre_result = None
    /\ last.pre_outcome = "timeout"
    /\ last.recheck = "CANCELLED"
    /\ ~last.created
    /\ last.future = last.pre_future.id
    /\ last.io.getStatus = 1

\* C20: a result() call that waits on a polling operation returns: the
\* operation settles, whatever the service does and even if the status never
\* becomes terminal.
C20_PollingSettles ==
    (pc = "blocked") ~> (pc = "idle" /\ ~Unsettled(_future))

\* result() returned empty after the operation polled a task that is still not
\* terminal until the timeout
C20_Witness ==
    /\ pc = "idle"
    /\ last.call = "result"
    /\ last.returned
    /\ last.result = None
    /\ coro.outcome = "timeout"
    /\ opLog.nonTerminal = MaxTimeout
    /\ opLog.getStatus = MaxTimeout
    /\ remote.status \in NonTerminalStates

\* C21: a create() call with a Circuit and an output location of two components
\* whose circuit passed validation has issued its one submit call with device
\* parameters of exactly one shape, fixed by the device ARN alone: the IonQ
\* shape if the ARN contains "ionq", otherwise the Rigetti shape if it contains
\* "rigetti", otherwise the simulator shape, around the circuit's qubit count
\* and whatever device_parameters the caller passed; a call whose circuit
\* failed validation has chosen no shape and has submitted nothing.
C21_ShapeByDeviceArn ==
    (/\ submission.done
     /\ submission.task_specification.variant = "Circuit"
     /\ Len(submission.s3_destination_folder) = 2)
    => IF ValidateCircuitAndShots(submission.task_specification, submission.shots) = "None"
       THEN /\ submission.out.submits = 1
            /\ submission.out.request.deviceParameters.qubitCount =
                  submission.task_specification.qubit_count
            /\ submission.out.request.deviceParameters.shape =
                  IF \E i \in DOMAIN submission.device_arn : submission.device_arn[i] = "ionq"
                  THEN "IonqDeviceParameters"
                  ELSE IF \E i \in DOMAIN submission.device_arn :
                             submission.device_arn[i] = "rigetti"
                  THEN "RigettiDeviceParameters"
                  ELSE "GateModelSimulatorDeviceParameters"
       ELSE /\ submission.out.submits = 0
            /\ submission.out.raised = "ValueError"
            /\ submission.out.request.deviceParameters = NoDeviceParameters

\* a circuit submitted to a device whose ARN contains both "rigetti" and "ionq",
\* with device_parameters that would not parse for a Problem
C21_Witness ==
    /\ submission.done
    /\ submission.task_specification.variant = "Circuit"
    /\ submission.device_arn = <<"device", "rigetti", "ionq">>
    /\ submission.device_parameters = "malformed"
    /\ submission.out.submits = 1
    /\ submission.out.request.deviceParameters.shape = "IonqDeviceParameters"
    /\ submission.out.handle \in TaskArns

\* cancel() has been called on the handle while its polling operation was
\* unsettled or absent: the future is cancelled, or is about to be
CancelledHandle(f) == f.kind # "none" /\ (f.mustCancel \/ FutureCancelled(f))

\* C22: a handle cancelled while its operation was unsettled or absent stays
\* cancelled, with the same future and the same memoized result; a result() or
\* async_result() call made on it has started no polling operation and has
\* issued no remote call, whatever the service reports, and a result() call
\* that returned has returned, without raising, the result memoized when
\* cancel() was called.
C22_CancellationPermanent ==
    /\ CancelledHandle(_future) => _result = cancelledWith
    /\ (/\ last.call \in {"result", "async_result"}
        /\ CancelledHandle(last.pre_future))
       => /\ ~last.created
          /\ last.future = last.pre_future.id
          /\ _future.id = last.pre_future.id
          /\ CancelledHandle(_future)
          /\ last.io = NoCalls
          /\ last.raised = "None"
          /\ _result = last.pre_result
          /\ (last.call = "result" /\ last.returned)
             => /\ FutureCancelled(_future)
                /\ last.result = cancelledWith

\* result() on a handle cancelled during polling returned empty without a
\* remote call although the task is COMPLETED by now
C22_Witness ==
    /\ last.call = "result"
    /\ last.returned
    /\ last.pre_future.kind = "Task"
    /\ CancelledHandle(last.pre_future)
    /\ opLog.nonTerminal >= 1
    /\ remote.status = "COMPLETED"
    /\ last.result = None
    /\ last.io = NoCalls

\* C23: a cancel() call made when a concrete result was memoized found the
\* polling operation settled with that result, has issued the remote cancel
\* call and no other, and has left the memoized result and the future as they
\* were, whether or not the remote call failed; a result() call made when a
\* concrete result was memoized, after such a cancel() or not, has returned
\* that result from the same settled future.
C23_CancelAfterResult ==
    /\ (last.call = "cancel" /\ last.pre_result # None)
       => /\ last.pre_future.state = "finished"
          /\ last.pre_future.value = last.pre_result
          /\ _future = last.pre_future
          /\ _result = last.pre_result
          /\ last.future = last.pre_future.id
          /\ ~last.created
          /\ last.io.cancel = 1
          /\ last.io.getStatus = 0
          /\ last.io.fetchBlob = 0
          /\ cancelledWith = None
    /\ (last.call = "result" /\ last.pre_result # None)
       => /\ last.returned
          /\ last.raised = "None"
          /\ last.result = last.pre_result
          /\ _future = last.pre_future
          /\ _future.state = "finished"
          /\ _result = last.pre_result

\* cancel() on a handle that holds the result of a COMPLETED task
C23_Witness ==
    /\ last.call = "cancel"
    /\ last.pre_result # None
    /\ last.pre_result = ExpectedResult
    /\ last.io.cancel = 1
    /\ last.raised = "None"
    /\ _future.state = "finished"
    /\ _result = ExpectedResult

====
